---- MODULE Spec2Model ----
(***************************************************************************)
(* TodoApp (src/app.js): a React component holding a task list, an input   *)
(* text, an edit marker and a view filter, persisted to one localStorage   *)
(* slot by an effect that runs after every change of the task list.        *)
(*                                                                         *)
(* Strings typed by the user are sequences of characters, so that trim()   *)
(* is computed.  An id `${Date.now().toString(36)}-${suffix}` is the pair  *)
(* <<time, suffix>>.  The text held by the storage slot is a sequence of   *)
(* JSON tokens (separators left out), so that JSON.stringify and           *)
(* JSON.parse are two different computations.                              *)
(***************************************************************************)
EXTENDS Integers, Sequences, FiniteSets, TLC

VARIABLES
    tasks,          \* useState tasks (line 17): an array of task objects
    text,           \* useState text (line 28): the input field
    editingId,      \* useState editingId (line 29): Null or a task id
    filter,         \* useState filter (line 30)
    storage,        \* localStorage slot STORAGE_KEY
    mounted,        \* the component rendered without throwing
    persistPending, \* the [tasks] effect (line 43) is scheduled and has not run
    failedWrites,   \* how many setItem calls in a row have thrown (line 48)
    lastOp          \* the handler of the event being handled, and what it returned

vars == <<tasks, text, editingId, filter, storage, mounted, persistPending,
          failedWrites, lastOp>>

----------------------------------------------------------------------------
(* Bounds *)

\* Most tasks the collection holds at once (addTask is not offered beyond).
MaxTasks == 2
\* What Date.now() returns in a session (the system clock is not monotonic,
\* so two readings are two free choices).  Time 0 is an earlier session.
Times == {1}
\* Most writes of the slot that fail in a row.
MaxFailedWrites == 1

\* The suffixes Math.random() yields in createId.
Suffixes == {1, 2}

\* The strings the user types into the input.
Inputs == { <<" ">>, <<" ", "a">> }

----------------------------------------------------------------------------
(* JavaScript values *)

\* null (editingId, line 29), apart from every string
Null == <<"null">>
\* the string ""
EmptyString == <<>>
\* What an if takes for true (line 66): neither null nor ""
Truthy(v) == v # Null /\ v # EmptyString
\* the value null inside parsed JSON
JNull == [k |-> "null"]
\* What a function returns: nothing, or one value
Undefined == <<>>
Returns(v) == <<v>>

\* String.prototype.trim, line 63
RECURSIVE TrimStart(_)
TrimStart(s) ==
    IF s # <<>> /\ Head(s) = " " THEN TrimStart(Tail(s)) ELSE s

RECURSIVE TrimEnd(_)
TrimEnd(s) ==
    IF s # <<>> /\ s[Len(s)] = " " THEN TrimEnd(SubSeq(s, 1, Len(s) - 1)) ELSE s

\* Faulty variant: the input is used as typed
NoTrim(s) == s

Trim(s) == TrimEnd(TrimStart(s))

----------------------------------------------------------------------------
(* JSON text: a sequence of tokens *)

P(x) == <<"p", x>>      \* punctuation  [ ] { }
S(x) == <<"s", x>>      \* a string literal
N(x) == <<"n", x>>      \* a number literal
L(x) == <<"l", x>>      \* true, false, null

IsP(t, x) == t[1] = "p" /\ t[2] = x

\* Faulty variant: the completed flag is not written
StringifyNoFlag(t) ==
    << P("{"), S("id"), S(t.id), S("text"), S(t.text),
       S("completed"), L("false"),
       S("createdAt"), N(t.createdAt), P("}") >>

StringifyTask(t) ==
    << P("{"), S("id"), S(t.id), S("text"), S(t.text),
       S("completed"), L(IF t.completed THEN "true" ELSE "false"),
       S("createdAt"), N(t.createdAt), P("}") >>

RECURSIVE StringifyElems(_)
StringifyElems(s) ==
    IF s = <<>> THEN <<>>
    ELSE (IF Head(s) = JNull THEN <<L("null")>> ELSE StringifyTask(Head(s)))
         \o StringifyElems(Tail(s))

\* JSON.stringify(tasks), line 47
JSONstringify(arr) == <<P("[")>> \o StringifyElems(arr) \o <<P("]")>>

ParseFail == [ok |-> FALSE, kind |-> "none", val |-> JNull, next |-> 0]
Parsed(kind, val, next) == [ok |-> TRUE, kind |-> kind, val |-> val, next |-> next]

TaskKeys == {"id", "text", "completed", "createdAt"}

Member(ms, key) == (CHOOSE i \in 1..Len(ms) : ms[i][1] = key)

\* The object a member list denotes: a task record when its keys are the four
\* of a task, and an opaque object otherwise.
MakeObject(ms) ==
    IF Len(ms) = 4 /\ \A key \in TaskKeys : \E i \in 1..Len(ms) : ms[i][1] = key
    THEN [id        |-> ms[Member(ms, "id")][2],
          text      |-> ms[Member(ms, "text")][2],
          completed |-> ms[Member(ms, "completed")][2],
          createdAt |-> ms[Member(ms, "createdAt")][2]]
    ELSE [k |-> "object", members |-> Len(ms)]

RECURSIVE ParseValue(_, _), ParseElems(_, _, _), ParseMembers(_, _, _)
ParseValue(s, i) ==
    IF i > Len(s) THEN ParseFail
    ELSE LET t == s[i] IN
         CASE t[1] = "n" -> Parsed("number", t[2], i + 1)
           [] t[1] = "s" -> Parsed("string", t[2], i + 1)
           [] t[1] = "l" ->
                IF t[2] = "null" THEN Parsed("null", JNull, i + 1)
                ELSE Parsed("boolean", t[2] = "true", i + 1)
           [] IsP(t, "[") -> ParseElems(s, i + 1, <<>>)
           [] IsP(t, "{") -> ParseMembers(s, i + 1, <<>>)
           [] OTHER -> ParseFail

ParseElems(s, i, acc) ==
    IF i > Len(s) THEN ParseFail
    ELSE IF IsP(s[i], "]") THEN Parsed("array", acc, i + 1)
    ELSE LET r == ParseValue(s, i) IN
         IF r.ok THEN ParseElems(s, r.next, Append(acc, r.val)) ELSE ParseFail

ParseMembers(s, i, acc) ==
    IF i > Len(s) THEN ParseFail
    ELSE IF IsP(s[i], "}") THEN Parsed("object", MakeObject(acc), i + 1)
    ELSE IF s[i][1] # "s" THEN ParseFail
    ELSE LET r == ParseValue(s, i + 1) IN
         IF r.ok THEN ParseMembers(s, r.next, Append(acc, <<s[i][2], r.val>>))
         ELSE ParseFail

\* JSON.parse(raw), line 20: ok = FALSE stands for the SyntaxError it throws.
JSONparse(raw) ==
    LET r == ParseValue(raw, 1) IN
    IF r.ok /\ r.next = Len(raw) + 1 THEN r ELSE ParseFail

----------------------------------------------------------------------------
(* The storage slot *)

NoItem == [present |-> FALSE, value |-> <<>>]
Item(raw) == [present |-> TRUE, value |-> raw]

\* useState initializer, lines 17-25.  `throws` is getItem throwing (storage
\* unavailable).  kind is the type of the value the initializer returns.
LoadTasks(slot, throws) ==
    IF throws THEN [kind |-> "array", val |-> <<>>, err |-> TRUE]
    ELSE IF ~slot.present \/ slot.value = <<>>
         THEN [kind |-> "array", val |-> <<>>, err |-> FALSE]
    ELSE LET r == JSONparse(slot.value) IN
         IF r.ok THEN [kind |-> r.kind, val |-> r.val, err |-> FALSE]
         ELSE [kind |-> "array", val |-> <<>>, err |-> TRUE]

\* The first render, lines 109-113 and 201-203: tasks.filter exists only on an
\* array, and task.id throws on a null element.
RenderOk(loaded) ==
    /\ loaded.kind = "array"
    /\ \A i \in 1..Len(loaded.val) : loaded.val[i] # JNull

----------------------------------------------------------------------------
(* Helpers of the handlers *)

\* createId, line 59, from one reading of the clock and one random suffix
createId(d, r) == <<d, r>>

\* lines 75-80
NewTask(id, trimmed, d) ==
    [id |-> id, text |-> trimmed, completed |-> FALSE, createdAt |-> d]

\* Faulty variant: the new task is put last
AppendLast(newTask, prev) == prev \o <<newTask>>

\* line 82
Prepend(newTask, prev) == <<newTask>> \o prev

\* Faulty variant: an edit of an id that is not there adds the task
EditUpsert(prev, id, trimmed) ==
    IF \E i \in 1..Len(prev) : prev[i].id = id
    THEN [i \in 1..Len(prev) |->
            IF prev[i].id = id THEN [prev[i] EXCEPT !.text = trimmed] ELSE prev[i]]
    ELSE Append(prev, [id |-> id, text |-> trimmed, completed |-> FALSE,
                       createdAt |-> 0])

\* Faulty variant: saving an edit stamps the task anew
EditRestamp(prev, id, trimmed) ==
    [i \in 1..Len(prev) |->
        IF prev[i].id = id
        THEN [prev[i] EXCEPT !.text = trimmed, !.createdAt = 1]
        ELSE prev[i]]

\* line 68
EditMap(prev, id, trimmed) ==
    [i \in 1..Len(prev) |->
        IF prev[i].id = id THEN [prev[i] EXCEPT !.text = trimmed] ELSE prev[i]]

\* Faulty variant: a toggled task sinks to the end of the list
ToggleSink(prev, id) ==
    LET Hit(t) == t.id = id
        Miss(t) == t.id # id
        Flip(ts) == [i \in 1..Len(ts) |->
                        [ts[i] EXCEPT !.completed = ~ts[i].completed]]
    IN SelectSeq(prev, Miss) \o Flip(SelectSeq(prev, Hit))

\* Faulty variant: the task is marked done instead of flipped
ToggleMarkDone(prev, id) ==
    [i \in 1..Len(prev) |->
        IF prev[i].id = id THEN [prev[i] EXCEPT !.completed = TRUE] ELSE prev[i]]

\* line 98
ToggleMap(prev, id) ==
    [i \in 1..Len(prev) |->
        IF prev[i].id = id THEN [prev[i] EXCEPT !.completed = ~prev[i].completed]
        ELSE prev[i]]

\* Faulty variant: the test of the filter is inverted
RemoveOthers(prev, id) ==
    LET Keep(t) == t.id = id IN SelectSeq(prev, Keep)

\* line 102
RemoveFilter(prev, id) ==
    LET Keep(t) == t.id # id IN SelectSeq(prev, Keep)

\* Faulty variant: the test of the filter is inverted
ClearActive(prev) ==
    LET Keep(t) == t.completed IN SelectSeq(prev, Keep)

\* line 106
ClearFilter(prev) ==
    LET Keep(t) == ~t.completed IN SelectSeq(prev, Keep)

\* Faulty variant: the completed view falls through to the whole list
FilteredFallThrough(ts, f) ==
    LET Keep(t) == IF f = "active" THEN ~t.completed ELSE TRUE
    IN SelectSeq(ts, Keep)

\* lines 109-113
FilteredTasks(ts, f) ==
    LET Keep(t) == IF f = "active" THEN ~t.completed
                   ELSE IF f = "completed" THEN t.completed
                   ELSE TRUE
    IN SelectSeq(ts, Keep)

filteredTasks == FilteredTasks(tasks, filter)

----------------------------------------------------------------------------
(* What the storage slot may hold when a session starts *)

\* A task written by an earlier session (time 0).
Old(r, txt, done) ==
    [id |-> createId(0, r), text |-> txt, completed |-> done, createdAt |-> 0]

\* A task whose id is "", as another writer of the slot may have left it
\* (with a text of whitespace, too).
NoId(txt) ==
    [id |-> EmptyString, text |-> txt, completed |-> FALSE, createdAt |-> 0]

Slots == 1..9

InitialSlot(n) ==
    CASE n = 1 -> NoItem                                   \* key never written
      [] n = 2 -> Item(<<>>)                               \* ""
      [] n = 3 -> Item(<<P("["), P("{")>>)                 \* truncated text
      [] n = 4 -> Item(<<L("null")>>)                      \* null
      [] n = 5 -> Item(<<P("{"), P("}")>>)                 \* {}
      [] n = 6 -> Item(<<P("["), L("null"), P("]")>>)      \* [null]
      [] n = 7 -> Item(JSONstringify(<<Old(2, <<"a">>, TRUE),
                                       Old(1, <<"b">>, FALSE)>>))
      [] n = 8 -> Item(JSONstringify(<<NoId(<<" ">>)>>))
      [] n = 9 -> Item(JSONstringify(<<Old(1, <<"b">>, FALSE),
                                       Old(1, <<"b">>, TRUE)>>))

\* Every id a handler can be called with.
Ids == {createId(d, r) : d \in {0} \cup Times, r \in Suffixes}
           \cup {EmptyString}

\* hit: the handler found a task to act on.  Every handler returns undefined
\* (lines 64, 72, 84, 90, 95, 99, 103, 107).
Op(name, hit) == [op |-> name, hit |-> hit, returned |-> Undefined]

\* No event is being handled: the handler returned and the effects of its
\* render have run.  Handlers that leave the task list alone schedule no
\* effect and are over at once.
Idle == Op("none", FALSE)

\* Construction of the component, lines 17-35: the state after the first
\* render, with the [tasks] effect of that render scheduled.
Mount(slot, throws) ==
    LET loaded == LoadTasks(slot, throws) IN
    /\ tasks = loaded.val
    /\ mounted = RenderOk(loaded)
    /\ persistPending = RenderOk(loaded)
    /\ text = <<>>
    /\ editingId = Null
    /\ filter = "all"
    /\ lastOp = Op("mount", FALSE)
    /\ failedWrites = 0

Init ==
    \E n \in Slots, throws \in BOOLEAN :
        /\ storage = InitialSlot(n)
        /\ Mount(storage, throws)

----------------------------------------------------------------------------
(* Handlers.  React runs the effects of a render before it handles the next *)
(* event, so no handler runs while the persist effect is pending.           *)

Ready == mounted /\ ~persistPending

\* onChange of the input, line 133
SetText(s) ==
    /\ Ready
    /\ lastOp' = Idle
    /\ text' = s
    /\ UNCHANGED <<tasks, editingId, filter, storage, mounted, persistPending,
                   failedWrites>>

\* addTask, lines 63-64: nothing to submit
AddTaskEmpty ==
    /\ Ready
    /\ lastOp' = Op("addTask:empty", FALSE)
    /\ Trim(text) = <<>>
    /\ UNCHANGED <<tasks, text, editingId, filter, storage, mounted,
                   persistPending, failedWrites>>

\* addTask, lines 66-73: save the edit
AddTaskEdit ==
    /\ Ready
    /\ lastOp' = Op("addTask:edit", \E i \in 1..Len(tasks) : tasks[i].id = editingId)
    /\ Trim(text) # <<>>
    /\ Truthy(editingId)
    /\ tasks' = EditMap(tasks, editingId, Trim(text))
    /\ editingId' = Null
    /\ text' = <<>>
    /\ persistPending' = TRUE
    /\ UNCHANGED <<filter, storage, mounted, failedWrites>>

\* addTask, lines 75-83: create a task.  Date.now() is read twice (lines 59
\* and 79); r is Math.random's suffix.
AddTaskNew ==
    /\ Ready
    /\ lastOp' = Op("addTask:new", TRUE)
    /\ Trim(text) # <<>>
    /\ ~Truthy(editingId)
    /\ Len(tasks) < MaxTasks
    /\ \E d1 \in Times, r \in Suffixes, d2 \in Times :
            tasks' = Prepend(NewTask(createId(d1, r), Trim(text), d2), tasks)
    /\ text' = <<>>
    /\ persistPending' = TRUE
    /\ UNCHANGED <<editingId, filter, storage, mounted, failedWrites>>

addTask == AddTaskEmpty \/ AddTaskEdit \/ AddTaskNew

\* startEdit, lines 86-90, from the Edit button of a rendered task (line 223)
startEdit(task) ==
    /\ Ready
    /\ lastOp' = Idle
    /\ editingId' = task.id
    /\ text' = task.text
    /\ UNCHANGED <<tasks, filter, storage, mounted, persistPending, failedWrites>>

\* cancelEdit, lines 92-95
cancelEdit ==
    /\ Ready
    /\ lastOp' = Idle
    /\ editingId' = Null
    /\ text' = <<>>
    /\ UNCHANGED <<tasks, filter, storage, mounted, persistPending, failedWrites>>

\* toggleComplete, lines 97-99
toggleComplete(id) ==
    /\ Ready
    /\ lastOp' = Op("toggleComplete", \E i \in 1..Len(tasks) : tasks[i].id = id)
    /\ tasks' = ToggleMap(tasks, id)
    /\ persistPending' = TRUE
    /\ UNCHANGED <<text, editingId, filter, storage, mounted, failedWrites>>

\* removeTask, lines 101-103
removeTask(id) ==
    /\ Ready
    /\ lastOp' = Op("removeTask", \E i \in 1..Len(tasks) : tasks[i].id = id)
    /\ tasks' = RemoveFilter(tasks, id)
    /\ persistPending' = TRUE
    /\ UNCHANGED <<text, editingId, filter, storage, mounted, failedWrites>>

\* clearCompleted, lines 105-107
clearCompleted ==
    /\ Ready
    /\ lastOp' = Op("clearCompleted", \E i \in 1..Len(tasks) : tasks[i].completed)
    /\ tasks' = ClearFilter(tasks)
    /\ persistPending' = TRUE
    /\ UNCHANGED <<text, editingId, filter, storage, mounted, failedWrites>>

\* Faulty variant: choosing a view drops the tasks outside it
SetFilterApply(f) ==
    /\ Ready
    /\ lastOp' = Idle
    /\ filter' = f
    /\ tasks' = FilteredTasks(tasks, f)
    /\ UNCHANGED <<text, editingId, storage, mounted, persistPending,
                   failedWrites>>

\* setFilter, lines 162, 169, 176
SetFilter(f) ==
    /\ Ready
    /\ lastOp' = Idle
    /\ filter' = f
    /\ UNCHANGED <<tasks, text, editingId, storage, mounted, persistPending,
                   failedWrites>>

\* Faulty variant: the effect writes the list on display
PersistFiltered ==
    /\ mounted /\ persistPending
    /\ storage' = Item(JSONstringify(filteredTasks))
    /\ failedWrites' = 0
    /\ persistPending' = FALSE
    /\ lastOp' = Idle
    /\ UNCHANGED <<tasks, text, editingId, filter, mounted>>

\* The [tasks] effect, lines 43-51, when setItem succeeds
PersistOk ==
    /\ mounted /\ persistPending
    /\ storage' = Item(JSONstringify(tasks))
    /\ failedWrites' = 0
    /\ persistPending' = FALSE
    /\ lastOp' = Idle
    /\ UNCHANGED <<tasks, text, editingId, filter, mounted>>

\* Faulty variant: a write that fails takes the change back
PersistFailRollback ==
    /\ mounted /\ persistPending
    /\ failedWrites < MaxFailedWrites
    /\ failedWrites' = failedWrites + 1
    /\ persistPending' = FALSE
    /\ lastOp' = Idle
    /\ tasks' = LoadTasks(storage, FALSE).val
    /\ UNCHANGED <<text, editingId, filter, storage, mounted>>

\* The [tasks] effect when setItem throws (quota, storage unavailable): the
\* catch branch logs and the slot keeps what it held.
PersistFail ==
    /\ mounted /\ persistPending
    /\ failedWrites < MaxFailedWrites
    /\ failedWrites' = failedWrites + 1
    /\ persistPending' = FALSE
    /\ lastOp' = Idle
    /\ UNCHANGED <<tasks, text, editingId, filter, storage, mounted>>

\* The page is loaded again: a new component is constructed from the slot.
Reload ==
    /\ ~persistPending
    /\ \E throws \in BOOLEAN :
         LET loaded == LoadTasks(storage, throws) IN
         /\ tasks' = loaded.val
         /\ mounted' = RenderOk(loaded)
         /\ persistPending' = RenderOk(loaded)
    /\ text' = <<>>
    /\ editingId' = Null
    /\ filter' = "all"
    /\ failedWrites' = 0
    /\ lastOp' = Op("mount", FALSE)
    /\ UNCHANGED storage

Next ==
    \/ \E s \in Inputs : SetText(s)
    \/ AddTaskEmpty
    \/ AddTaskEdit
    \/ AddTaskNew
    \/ (mounted /\ \E i \in 1..Len(filteredTasks) : startEdit(filteredTasks[i]))
    \/ cancelEdit
    \/ \E id \in Ids : toggleComplete(id)
    \/ \E id \in Ids : removeTask(id)
    \/ clearCompleted
    \/ \E f \in {"all", "active", "completed"} : SetFilter(f)
    \/ PersistOk
    \/ PersistFail
    \/ Reload

Spec == Init /\ [][Next]_vars

\* The effect scheduled by a render does run.
FairSpec == Spec /\ WF_vars(PersistOk \/ PersistFail)

----------------------------------------------------------------------------
(* Vocabulary of the properties, stated without the operators of the model *)

IdsOf(ts) == {ts[i].id : i \in 1..Len(ts)}
Holders(ts, id) == {i \in 1..Len(ts) : ts[i].id = id}

\* s is empty or whitespace only
Blank(s) == \A i \in 1..Len(s) : s[i] = " "

\* t is s without its leading and trailing whitespace
IsTrimOf(t, s) ==
    /\ t # <<>> => t[1] # " " /\ t[Len(t)] # " "
    /\ \E k \in 0..Len(s) :
         /\ k + Len(t) <= Len(s)
         /\ \A i \in 1..Len(s) :
              IF i > k /\ i <= k + Len(t) THEN s[i] = t[i - k] ELSE s[i] = " "

\* new is old restricted to the positions of K, in the order of old
IsRestriction(new, old, K) ==
    /\ Len(new) = Cardinality(K)
    /\ \A i \in K : new[Cardinality({j \in K : j <= i})] = old[i]

----------------------------------------------------------------------------
(* C1 *)

\* C1: a submit with text that is non-empty after trimming, while no edit is
\* in progress, makes the collection one longer; the new task is first, is
\* not completed and holds the trimmed input; the tasks held before follow
\* it, unchanged and in their order.
C1_AddPrepends ==
    [][ (addTask /\ ~Blank(text) /\ editingId = Null)
          => /\ Len(tasks') = Len(tasks) + 1
             /\ tasks'[1].completed = FALSE
             /\ IsTrimOf(tasks'[1].text, text)
             /\ Tail(tasks') = tasks ]_vars

\* An add has just put a task in front of an older one; its input needed
\* trimming.
C1_Witness ==
    /\ lastOp.op = "addTask:new"
    /\ Len(tasks) = 2
    /\ tasks[1].text = <<"a">>
    /\ ~tasks[1].completed

----------------------------------------------------------------------------
(* C2 *)

\* C2: in every state no two tasks of the collection have the same id.
C2_UniqueIds ==
    mounted => \A i, j \in 1..Len(tasks) : i # j => tasks[i].id # tasks[j].id

----------------------------------------------------------------------------
(* C3 *)

\* C3: once the persist effect has run and its write succeeded, the slot
\* holds the serialization of the collection in memory, whatever mutations
\* came before; and a read of the slot then yields that very collection,
\* never an older one.
C3_LastMutationPersisted ==
    (mounted /\ ~persistPending /\ failedWrites = 0)
        => /\ storage = Item(JSONstringify(tasks))
           /\ LoadTasks(storage, FALSE).val = tasks

\* A mutation (a toggle) has been written to the slot.
C3_Witness ==
    /\ mounted /\ ~persistPending /\ failedWrites = 0
    /\ Len(tasks) = 2
    /\ tasks[1].completed /\ tasks[2].completed
    /\ storage = Item(JSONstringify(tasks))

----------------------------------------------------------------------------
(* C4 *)

Others(ts, id) == (1..Len(ts)) \ Holders(ts, id)

----------------------------------------------------------------------------
(* C5 *)

\* C5: saving an edit of a task of the collection changes the text of that
\* task to the trimmed input and nothing else: not its id, completed,
\* createdAt or position, and no other task.
C5_EditChangesOnlyText ==
    [][ (addTask /\ ~Blank(text) /\ Holders(tasks, editingId) # {}) =>
          /\ Len(tasks') = Len(tasks)
          /\ \E i \in Holders(tasks, editingId) :
               /\ IsTrimOf(tasks'[i].text, text)
               /\ tasks'[i].id = tasks[i].id
               /\ tasks'[i].completed = tasks[i].completed
               /\ tasks'[i].createdAt = tasks[i].createdAt
               /\ \A j \in (1..Len(tasks)) \ {i} : tasks'[j] = tasks[j] ]_vars

----------------------------------------------------------------------------
(* C6 *)

----------------------------------------------------------------------------
(* C7 *)

----------------------------------------------------------------------------
(* C8 *)

\* C8: in every state, the text of every task of the collection is neither
\* empty nor whitespace only.
C8_TextNeverBlank ==
    mounted => \A i \in 1..Len(tasks) : ~Blank(tasks[i].text)

----------------------------------------------------------------------------
(* C9 *)

\* C9: construction never fails: whatever the slot holds, the component
\* renders, on a collection that is a sequence of tasks.
C9_InitNeverFails ==
    /\ mounted
    /\ \A i \in 1..Len(tasks) : DOMAIN tasks[i] = TaskKeys

----------------------------------------------------------------------------
(* C10 *)

Completed(ts) == {i \in 1..Len(ts) : ts[i].completed}

----------------------------------------------------------------------------
(* C11 *)

\* C11: a toggle flips completed on the tasks holding the id and changes
\* nothing else, and toggling the same id once more gives back the
\* collection as it was before the two toggles, field by field and in order.
C11_ToggleTwice ==
    [][ \A id \in Ids : toggleComplete(id) =>
          /\ Len(tasks') = Len(tasks)
          /\ \A i \in 1..Len(tasks) :
               tasks'[i] = [tasks[i] EXCEPT
                              !.completed = (tasks[i].id = id) # tasks[i].completed]
          /\ ToggleMap(tasks', id) = tasks ]_vars

\* The write of a first toggle failed, so the slot still holds the collection
\* from before it, and a second toggle has brought that collection back.
C11_Witness ==
    /\ lastOp.op = "toggleComplete" /\ lastOp.hit
    /\ persistPending
    /\ failedWrites = 1
    /\ Len(tasks) = 2
    /\ storage = Item(JSONstringify(tasks))

----------------------------------------------------------------------------
(* C12 *)

\* C12: a write of the slot that fails changes nothing in memory and stops
\* nothing: the collection, the input, the edit and the filter are what the
\* handler left, the component stays mounted and takes the next event, and
\* the only trace is the count of failures.
C12_WriteFailureKeepsMemory ==
    [][ failedWrites' > failedWrites =>
          /\ tasks' = tasks
          /\ UNCHANGED <<text, editingId, filter, storage>>
          /\ mounted' /\ Ready' ]_vars

\* After a write that failed the collection in memory is ahead of the slot,
\* and a later handler (a submit of whitespace) has run.
C12_Witness ==
    /\ mounted /\ ~persistPending
    /\ failedWrites = 1
    /\ Len(tasks) = 2
    /\ storage = Item(JSONstringify(Tail(tasks)))
    /\ lastOp.op = "addTask:empty"

----------------------------------------------------------------------------
(* C13 *)

\* C13: writing a collection to the slot and reading the slot back gives a
\* collection equal to it, field by field and in order, empty or not.
C13_RoundTrip ==
    mounted =>
        LET back == LoadTasks(Item(JSONstringify(tasks)), FALSE) IN
        /\ back.kind = "array" /\ ~back.err
        /\ Len(back.val) = Len(tasks)
        /\ \A i \in 1..Len(tasks) :
             /\ back.val[i].id = tasks[i].id
             /\ back.val[i].text = tasks[i].text
             /\ back.val[i].completed = tasks[i].completed
             /\ back.val[i].createdAt = tasks[i].createdAt

\* A task created and completed in an earlier session has been written and
\* read back on a reload.
C13_Witness ==
    /\ mounted /\ lastOp.op = "mount"
    /\ Len(tasks) = 2
    /\ tasks[1].createdAt = 1 /\ tasks[1].completed
    /\ ~tasks[2].completed

----------------------------------------------------------------------------
(* C14 *)

SetOf(ts) == {ts[i] : i \in 1..Len(ts)}

\* C14: in every state the Active and the Completed view together hold the
\* tasks of the All view and share none; All is the stored list, Active is
\* the stored list restricted to the tasks with completed = false, Completed
\* to those with completed = true, each in the stored order.
C14_FilterCorrect ==
    mounted =>
        LET all    == FilteredTasks(tasks, "all")
            active == FilteredTasks(tasks, "active")
            done   == FilteredTasks(tasks, "completed")
        IN /\ SetOf(active) \cup SetOf(done) = SetOf(all)
           /\ SetOf(active) \cap SetOf(done) = {}
           /\ all = tasks
           /\ IsRestriction(active, tasks,
                            {i \in 1..Len(tasks) : tasks[i].completed = FALSE})
           /\ IsRestriction(done, tasks,
                            {i \in 1..Len(tasks) : tasks[i].completed = TRUE})

\* The Active view is on display and hides the first of two stored tasks.
C14_Witness ==
    /\ mounted /\ filter = "active"
    /\ Len(tasks) = 2
    /\ tasks[1].completed /\ ~tasks[2].completed
    /\ filteredTasks = <<tasks[2]>>

----------------------------------------------------------------------------
(* C15 *)

IdStamp(ts) == [i \in 1..Len(ts) |-> <<ts[i].id, ts[i].createdAt>>]

\* C15: no handler and no write changes the id or the createdAt of a task it
\* keeps: after every step within a session the (id, createdAt) pairs of the
\* collection, leaving out a task the step has just added in front, are the
\* pairs held before the step: all of them, or those of the tasks kept, in
\* their order.
C15_IdAndCreatedAtImmutable ==
    [][ (mounted /\ lastOp'.op # "mount") =>
          LET kept == IF Len(tasks') > Len(tasks) THEN Tail(tasks') ELSE tasks'
          IN \/ IdStamp(kept) = IdStamp(tasks)
             \/ \E K \in SUBSET (1..Len(tasks)) :
                    IsRestriction(IdStamp(kept), IdStamp(tasks), K) ]_vars

\* A task loaded from the slot has been edited and toggled and still carries
\* the id and createdAt it was loaded with.
C15_Witness ==
    /\ lastOp.op = "toggleComplete" /\ lastOp.hit
    /\ Len(tasks) = 2
    /\ tasks[2] = [id |-> createId(0, 1), text |-> <<"a">>,
                   completed |-> TRUE, createdAt |-> 0]

----------------------------------------------------------------------------
(* C16 *)

IdSeq(ts) == [i \in 1..Len(ts) |-> ts[i].id]

\* C16: the list is in insertion order, newest first.  A submit that creates
\* a task puts it before all tasks held, which keep their places relative to
\* each other; saving an edit and toggling leave every task at its position;
\* every other step keeps the tasks it keeps in the order they had.
C16_NewestFirstOrderKept ==
    [][ (mounted /\ lastOp'.op # "mount") =>
          /\ lastOp'.op = "addTask:new" =>
               /\ Len(tasks') = Len(tasks) + 1
               /\ \A i \in 1..Len(tasks) : tasks'[i + 1].id = tasks[i].id
          /\ lastOp'.op \in {"addTask:edit", "toggleComplete"} =>
               /\ Len(tasks') = Len(tasks)
               /\ \A i \in 1..Len(tasks) : tasks'[i].id = tasks[i].id
          /\ lastOp'.op # "addTask:new" =>
               \/ IdSeq(tasks') = IdSeq(tasks)
               \/ \E K \in SUBSET (1..Len(tasks)) :
                      IsRestriction(IdSeq(tasks'), IdSeq(tasks), K) ]_vars

\* A task created in this session stands before a loaded one and has stayed
\* there through a toggle.
C16_Witness ==
    /\ lastOp.op = "toggleComplete" /\ lastOp.hit
    /\ Len(tasks) = 2
    /\ tasks[1].createdAt = 1 /\ tasks[1].completed
    /\ tasks[2].createdAt = 0 /\ ~tasks[2].completed

----------------------------------------------------------------------------
(* C17 *)

\* C17: choosing a view changes neither the collection nor the slot and
\* schedules no write; and whatever view is chosen, a step that changes the
\* slot writes the serialised collection and nothing of the filter.
C17_FilterIsPure ==
    [][ /\ \A f \in {"all", "active", "completed"} :
             SetFilter(f) =>
                 /\ tasks' = tasks
                 /\ storage' = storage
                 /\ persistPending' = persistPending
        /\ storage' # storage => storage' = Item(JSONstringify(tasks')) ]_vars

\* The Completed view is chosen while the collection, written to the slot in
\* full by this session, holds a task that is not completed.
C17_Witness ==
    /\ mounted /\ ~persistPending
    /\ filter = "completed"
    /\ Len(tasks) = 2
    /\ tasks[1].createdAt = 1 /\ ~tasks[1].completed
    /\ storage = Item(JSONstringify(tasks))

----------------------------------------------------------------------------
(* C18 *)

\* C18 as claimed: in every state editingId is null or the id of a task in
\* the collection.
C18_EditTargetExists ==
    mounted => (editingId = Null \/ editingId \in IdsOf(tasks))

----------------------------------------------------------------------------
(* C19 *)

\* C19 as claimed: a submit with text that is non-empty after trimming, made
\* while editingId is not null, creates no task and keeps the size of the
\* collection and the id and createdAt at every position, whether or not a
\* task holds the edited id, and ends the edit: editingId is null and the
\* input is empty afterwards.
C19_EditSubmitNeverCreates ==
    [][ (addTask /\ ~Blank(text) /\ editingId # Null) =>
          /\ Len(tasks') = Len(tasks)
          /\ IdStamp(tasks') = IdStamp(tasks)
          /\ editingId' = Null
          /\ text' = <<>> ]_vars

====
